---- MODULE Spec2Model ----
(***************************************************************************)
(* A model of bookplayer's main.py: the path confinement check, the        *)
(* file-backed ProgressStore, the session / CSRF gate and the HTTP         *)
(* handlers built on them.                                                 *)
(*                                                                         *)
(* Conventions                                                             *)
(*  - a path string is the record [abs, segs]: whether it starts with "/"  *)
(*    and its "/"-separated segments; a canonical path is the sequence of  *)
(*    names from the filesystem root;                                      *)
(*  - a text (file content, URL) is a sequence of tokens or characters;    *)
(*  - positions and durations are finite numbers, scaled to integers.      *)
(***************************************************************************)
EXTENDS Integers, Sequences, FiniteSets, TLC

VARIABLES
    target,     \* SpecPath: the candidate path string handed to the check
    confined,   \* SpecPath: the outcome of validate_within_media_root
    file,       \* PROGRESS_FILE: whether it exists, and its text
    lock,       \* ProgressStore._lock: the caller holding it, or NoOwner
    call,       \* SpecStore: per caller, the ProgressStore call it is in
    written,    \* history: per key, the payload of the last completed set
    session,    \* per client, request.session: authenticated and csrf_token
    minted,     \* the number of tokens secrets.token_urlsafe has returned
    resp        \* the request handled last and the response it got

pathVars == <<target, confined>>
storeVars == <<lock, call, written>>
httpVars == <<session, minted, resp>>
vars == <<target, confined, file, lock, call, written, session, minted, resp>>

(***************************************************************************)
(* Bounds                                                                  *)
(***************************************************************************)
MaxPathLen == 3
NCallers == 2
MaxTokens == 3
MaxCalls == 2

(***************************************************************************)
(* The filesystem the process runs on.                                     *)
(***************************************************************************)
MEDIA_ROOT == <<"srv", "media">>

Dirs ==
    { <<>>, <<"srv">>, <<"etc">>, <<"srv", "media">>, <<"srv", "media", "sub">> }

Files ==
    { <<"etc", "passwd">>,
      <<"srv", "media", "a.mp3">>,
      <<"srv", "media", "B.wav">>,
      <<"srv", "media", "notes.txt">>,
      <<"srv", "media", ".hidden.mp3">>,
      <<"srv", "media", "sub", "b.MP3">> }

\* a symbolic link inside the media root that points out of it
SymlinkAt == <<"srv", "media", "sub", "lnk">>
SymlinkTarget == <<"etc">>

Segments ==
    { ".", "..", "srv", "media", "etc", "passwd", "sub", "lnk", "a.mp3", "nope.mp3" }

PathString(a, s) == [abs |-> a, segs |-> s]

RECURSIVE SeqsUpTo(_, _)
SeqsUpTo(S, n) ==
    IF n = 0 THEN { <<>> }
    ELSE LET shorter == SeqsUpTo(S, n - 1)
         IN  shorter \cup { Append(q, x) : q \in shorter, x \in S }

Candidates == { PathString(a, s) : a \in BOOLEAN, s \in SeqsUpTo(Segments, MaxPathLen) }

(***************************************************************************)
(* Path Resolver                                                           *)
(***************************************************************************)
\* MEDIA_ROOT / p : an absolute right operand replaces the left one
JoinRoot(p) == IF p.abs THEN p.segs ELSE MEDIA_ROOT \o p.segs

Parent(c) == IF c = <<>> THEN <<>> ELSE SubSeq(c, 1, Len(c) - 1)

\* one component of Path.resolve(): "." stays, ".." climbs (the root is its
\* own parent), a symbolic link is replaced by its target, any other name,
\* existing or not, is appended
ResolveStep(cur, seg) ==
    IF seg = "." THEN cur
    ELSE IF seg = ".." THEN Parent(cur)
    ELSE IF Append(cur, seg) = SymlinkAt THEN SymlinkTarget
    ELSE Append(cur, seg)

RECURSIVE ResolveFrom(_, _)
ResolveFrom(cur, segs) ==
    IF segs = <<>> THEN cur
    ELSE ResolveFrom(ResolveStep(cur, Head(segs)), Tail(segs))

Resolve(joined) == ResolveFrom(<<>>, joined)

\* Path.parents : the proper ancestors of a canonical path
Parents(c) == { SubSeq(c, 1, n) : n \in 0 .. (Len(c) - 1) }

InsideRootMissingEquality(resolved) == MEDIA_ROOT \in Parents(resolved)

InsideRoot(resolved) == MEDIA_ROOT \in Parents(resolved) \/ resolved = MEDIA_ROOT

NoPath == <<"?">>

Pending == [status |-> 0, path |-> NoPath]

validate_within_media_rootAcceptsAll(joined) ==
    [status |-> 200, path |-> Resolve(joined)]

\* validate_within_media_root, lines 239-245
validate_within_media_root(joined) ==
    LET resolved == Resolve(joined)
    IN  IF ~InsideRoot(resolved)
        THEN [status |-> 400, path |-> NoPath]
        ELSE [status |-> 200, path |-> resolved]

(***************************************************************************)
(* Files and their names                                                   *)
(***************************************************************************)
AUDIO_EXTENSIONS == { ".mp3", ".wav", ".ogg", ".m4a", ".flac", ".aac", ".opus" }

exists(c) == c \in Dirs \cup Files
is_dir(c) == c \in Dirs
is_file(c) == c \in Files

NameOf(c) == IF c = <<>> THEN "" ELSE c[Len(c)]

\* Path.suffix of the names the filesystem holds
Suffix(name) ==
    CASE name \in { "a.mp3", ".hidden.mp3" } -> ".mp3"
      [] name = "b.MP3" -> ".MP3"
      [] name = "B.wav" -> ".wav"
      [] name = "notes.txt" -> ".txt"
      [] OTHER -> ""

\* str.lower on the names and suffixes the filesystem holds
Lower(text) ==
    CASE text = ".MP3" -> ".mp3"
      [] text = "b.MP3" -> "b.mp3"
      [] text = "B.wav" -> "b.wav"
      [] OTHER -> text

IsAudioNameCaseSensitive(name) == Suffix(name) \in AUDIO_EXTENSIONS

IsAudioName(name) == Lower(Suffix(name)) \in AUDIO_EXTENSIONS

\* get_audio_file, lines 309-315: the status, the file and the operations
\* performed in order
Found(status, path, trace) == [status |-> status, path |-> path, trace |-> trace]

get_audio_fileAnySuffix(relative_path) ==
    LET v == validate_within_media_root(JoinRoot(relative_path))
    IN  IF v.status # 200 THEN Found(400, NoPath, <<"resolve">>)
        ELSE IF ~exists(v.path) \/ ~is_file(v.path)
             THEN Found(404, NoPath, <<"resolve", "stat">>)
        ELSE Found(200, v.path, <<"resolve", "stat">>)

get_audio_file(relative_path) ==
    LET v == validate_within_media_root(JoinRoot(relative_path))
    IN  IF v.status # 200 THEN Found(400, NoPath, <<"resolve">>)
        ELSE IF ~exists(v.path) \/ ~is_file(v.path)
             THEN Found(404, NoPath, <<"resolve", "stat">>)
        ELSE IF ~IsAudioName(NameOf(v.path))
             THEN Found(400, NoPath, <<"resolve", "stat">>)
        ELSE Found(200, v.path, <<"resolve", "stat">>)

(***************************************************************************)
(* The text of PROGRESS_FILE: JSON, as a sequence of tokens                *)
(***************************************************************************)
NoKey == PathString(FALSE, <<>>)

Punct(c) == [t |-> "punct", s |-> c, k |-> NoKey, n |-> 0]
StrTok(key) == [t |-> "str", s |-> "", k |-> key, n |-> 0]
NameTok(name) == [t |-> "name", s |-> name, k |-> NoKey, n |-> 0]
NumTok(x) == [t |-> "num", s |-> "", k |-> NoKey, n |-> x]
LitTok(word) == [t |-> "lit", s |-> word, k |-> NoKey, n |-> 0]

Payload(position, duration, played) ==
    [position |-> position, duration |-> duration, played |-> played]

NoRecord == Payload(0, 0, FALSE)

\* a Python dict is the sequence of its items in insertion order
Item(key, val) == [key |-> key, val |-> val]

HasKey(d, key) == \E i \in 1 .. Len(d) : d[i].key = key

\* dict.get(key): [found, rec]
DictGet(d, key) ==
    IF HasKey(d, key)
    THEN [found |-> TRUE, rec |-> d[CHOOSE i \in 1 .. Len(d) : d[i].key = key].val]
    ELSE [found |-> FALSE, rec |-> NoRecord]

DictPutReplaceAll(d, key, val) == <<Item(key, val)>>

\* d[key] = val : an existing key keeps its place, a new one goes last
DictPut(d, key, val) ==
    IF HasKey(d, key)
    THEN [i \in 1 .. Len(d) |-> IF d[i].key = key THEN Item(key, val) ELSE d[i]]
    ELSE Append(d, Item(key, val))

DumpsRecordNoPlayed(r) ==
    << Punct("{"),
       NameTok("position"), Punct(":"), NumTok(r.position), Punct(","),
       NameTok("duration"), Punct(":"), NumTok(r.duration), Punct(","),
       NameTok("played"), Punct(":"), LitTok("false"),
       Punct("}") >>

DumpsRecord(r) ==
    << Punct("{"),
       NameTok("position"), Punct(":"), NumTok(r.position), Punct(","),
       NameTok("duration"), Punct(":"), NumTok(r.duration), Punct(","),
       NameTok("played"), Punct(":"), LitTok(IF r.played THEN "true" ELSE "false"),
       Punct("}") >>

RecordLen == Len(DumpsRecord(Payload(0, 0, FALSE)))

RECURSIVE DumpsItems(_)
DumpsItems(d) ==
    IF d = <<>> THEN <<>>
    ELSE (IF Len(d) > 1 THEN DumpsItems(SubSeq(d, 1, Len(d) - 1)) \o <<Punct(",")>>
          ELSE <<>>)
         \o <<StrTok(d[Len(d)].key), Punct(":")>> \o DumpsRecord(d[Len(d)].val)

\* json.dumps(data, indent=2)
Dumps(d) == <<Punct("{")>> \o DumpsItems(d) \o <<Punct("}")>>

\* the decoder's results: a dict, another JSON value, or JSONDecodeError
Decoded(kind, d) == [kind |-> kind, dict |-> d]
DecodeError == Decoded("error", <<>>)

IsRecordText(toks) ==
    /\ Len(toks) >= RecordLen
    /\ toks[1] = Punct("{")
    /\ toks[2] = NameTok("position") /\ toks[3] = Punct(":") /\ toks[4].t = "num"
    /\ toks[5] = Punct(",")
    /\ toks[6] = NameTok("duration") /\ toks[7] = Punct(":") /\ toks[8].t = "num"
    /\ toks[9] = Punct(",")
    /\ toks[10] = NameTok("played") /\ toks[11] = Punct(":")
    /\ toks[12] \in { LitTok("true"), LitTok("false") }
    /\ toks[13] = Punct("}")

ParseRecord(toks) == Payload(toks[4].n, toks[8].n, toks[12] = LitTok("true"))

\* the items of an object after its "{" or after a ","
RECURSIVE ParseItems(_, _)
ParseItems(toks, d) ==
    IF Len(toks) < 2 + RecordLen + 1 THEN DecodeError
    ELSE IF ~(toks[1].t = "str" /\ toks[2] = Punct(":")) THEN DecodeError
    ELSE LET rest == SubSeq(toks, 3, Len(toks))
             after == SubSeq(rest, RecordLen + 1, Len(rest))
         IN  IF ~IsRecordText(rest) THEN DecodeError
             ELSE LET d2 == DictPut(d, toks[1].k, ParseRecord(rest))
                  IN  IF after = <<Punct("}")>> THEN Decoded("dict", d2)
                      ELSE IF Head(after) = Punct(",") THEN ParseItems(Tail(after), d2)
                      ELSE DecodeError

\* json.loads(content)
Loads(toks) ==
    IF toks = <<>> THEN DecodeError
    ELSE IF toks = <<Punct("["), Punct("]")>> THEN Decoded("other", <<>>)
    ELSE IF Len(toks) = 1 /\ toks[1].t \in {"lit", "num", "str", "name"} THEN Decoded("other", <<>>)
    ELSE IF Head(toks) # Punct("{") THEN DecodeError
    ELSE IF toks = <<Punct("{"), Punct("}")>> THEN Decoded("dict", <<>>)
    ELSE ParseItems(Tail(toks), <<>>)

(***************************************************************************)
(* ProgressStore                                                           *)
(***************************************************************************)
FileOf(present, text) == [exists |-> present, text |-> text]

\* ensure_storage: an absent file is created holding "{}"
ensure_storage(f) == IF ~f.exists THEN FileOf(TRUE, Dumps(<<>>)) ELSE f

_load(f) ==
    IF ~f.exists THEN Decoded("dict", <<>>)
    ELSE IF f.text = <<>> THEN Decoded("dict", <<>>)
    ELSE LET v == Loads(f.text)
         IN  IF v.kind = "error" THEN Decoded("dict", <<>>) ELSE v

\* Path.write_text opens the file, which truncates it, and then writes
_save_open(f) == FileOf(TRUE, <<>>)
_save(data) == FileOf(TRUE, Dumps(data))

\* the outcome of a call: raised (an exception left the call), found, rec
Outcome(raised, found, rec) == [raised |-> raised, found |-> found, rec |-> rec]
NoOutcome == Outcome(FALSE, FALSE, NoRecord)

\* ProgressStore.get, the lock taken and released around the load
ProgressStore_get(f, key) ==
    LET data == _load(f)
    IN  IF data.kind # "dict" THEN Outcome(TRUE, FALSE, NoRecord)
        ELSE LET got == DictGet(data.dict, key)
             IN  Outcome(FALSE, got.found, got.rec)

\* ProgressStore.set, as one step: the file it leaves
ProgressStore_set(f, key, payload) ==
    LET data == _load(f)
    IN  IF data.kind # "dict" THEN f
        ELSE _save(DictPut(data.dict, key, payload))

(***************************************************************************)
(* Directory Catalog                                                       *)
(***************************************************************************)
\* directory.iterdir()
Children(dir) ==
    { c \in Dirs \cup Files \cup { SymlinkAt } : c # <<>> /\ Parent(c) = dir }

\* the lower-cased names in the order Python compares strings
NameOrder == << ".hidden.mp3", "a.mp3", "b.mp3", "b.wav", "lnk", "notes.txt", "sub" >>

NameRank(name) == CHOOSE i \in 1 .. Len(NameOrder) : NameOrder[i] = Lower(name)

EntryIsDir(entry) == is_dir(Resolve(entry))
EntryIsFile(entry) == is_file(Resolve(entry))

\* the sort key of line 258: (not p.is_dir(), p.name.lower())
SortsBefore(a, b) ==
    \/ EntryIsDir(a) /\ ~EntryIsDir(b)
    \/ /\ EntryIsDir(a) = EntryIsDir(b)
       /\ NameRank(NameOf(a)) < NameRank(NameOf(b))

RECURSIVE Sorted(_)
Sorted(entries) ==
    IF entries = {} THEN <<>>
    ELSE LET first == CHOOSE a \in entries : \A b \in entries \ {a} : SortsBefore(a, b)
         IN  <<first>> \o Sorted(entries \ {first})

StartsWithDot(name) == name = ".hidden.mp3"

\* entry.relative_to(MEDIA_ROOT), as the path string str() gives
RelativeToRoot(entry) ==
    PathString(FALSE, SubSeq(entry, Len(MEDIA_ROOT) + 1, Len(entry)))

Entry(name, path, played, dir) ==
    [name |-> name, path |-> path, played |-> played, dir |-> dir]

\* the loop of lines 257-270 over the sorted entries: the two lists, the
\* operations performed, and whether progress_store.get raised
Listed(directories, audio_files, trace, raised) ==
    [directories |-> directories, audio_files |-> audio_files, trace |-> trace,
     raised |-> raised]

RECURSIVE ListEntries(_, _, _)
ListEntries(entries, f, acc) ==
    IF entries = <<>> \/ acc.raised THEN acc
    ELSE LET entry == Head(entries)
             name == NameOf(entry)
             rel_path == RelativeToRoot(entry)
         IN  IF StartsWithDot(name) THEN ListEntries(Tail(entries), f, acc)
             ELSE IF EntryIsDir(entry)
             THEN ListEntries(Tail(entries), f,
                      [acc EXCEPT !.directories = Append(@, Entry(name, rel_path, FALSE, TRUE))])
             ELSE IF EntryIsFile(entry) /\ IsAudioName(name)
             THEN LET progress == ProgressStore_get(f, rel_path)
                      played == progress.found /\ progress.rec.played
                  IN  ListEntries(Tail(entries), f,
                          [acc EXCEPT !.audio_files = Append(@, Entry(name, rel_path, played, FALSE)),
                                      !.trace = Append(@, "store_get"),
                                      !.raised = progress.raised])
             ELSE ListEntries(Tail(entries), f, acc)

\* list_directory, lines 248-272
Directory(status, listed) ==
    [status |-> status, trace |-> listed.trace,
     listing |-> listed.directories \o listed.audio_files]

list_directory(relative_path, f) ==
    LET v == validate_within_media_root(JoinRoot(relative_path))
    IN  IF v.status # 200 THEN Directory(400, Listed(<<>>, <<>>, <<"resolve">>, FALSE))
        ELSE IF ~exists(v.path) \/ ~is_dir(v.path)
             THEN Directory(404, Listed(<<>>, <<>>, <<"resolve", "stat">>, FALSE))
        ELSE LET listed == ListEntries(Sorted(Children(v.path)), f,
                               Listed(<<>>, <<>>, <<"resolve", "stat", "iterdir">>, FALSE))
             IN  Directory(IF listed.raised THEN 500 ELSE 200, listed)

(***************************************************************************)
(* Session Authenticator                                                   *)
(***************************************************************************)
Clients == {"c1", "c2"}

\* a token is a positive number; 0 stands for no token (the key is absent
\* from the session, or the form field is empty)
Tokens == 0 .. MaxTokens

Session(authenticated, csrf_token) ==
    [authenticated |-> authenticated, csrf_token |-> csrf_token]

\* the session of a client that sends no cookie, and session.clear()
EmptySession == Session(FALSE, 0)

is_authenticatedAnySession(s) == TRUE

\* bool(request.session.get("authenticated")), line 153
is_authenticated(s) == s.authenticated

ensure_csrf_tokenAlwaysMints(s, fresh) ==
    [session |-> [s EXCEPT !.csrf_token = fresh], token |-> fresh, mints |-> 1]

\* ensure_csrf_token: the session afterwards and the token returned;
\* fresh is the value secrets.token_urlsafe gives if it is called
ensure_csrf_token(s, fresh) ==
    IF s.csrf_token = 0
    THEN [session |-> [s EXCEPT !.csrf_token = fresh], token |-> fresh, mints |-> 1]
    ELSE [session |-> s, token |-> s.csrf_token, mints |-> 0]

validate_csrf_tokenAnyToken(s, token) == s.csrf_token # 0

validate_csrf_token(s, token) ==
    IF s.csrf_token = 0 \/ token = 0 THEN FALSE ELSE token = s.csrf_token

\* a text (a URL, a form field) is a sequence of symbols: "/", "?", a name,
\* a percent-escape, or the scheme and authority of an origin
Origin == "http://player"
IndexUrl == <<Origin, "/">>
LoginUrl == <<Origin, "/", "login">>

\* urllib.parse.unquote and quote on the symbols the model uses
Unquote(text) ==
    [i \in 1 .. Len(text) |->
        IF text[i] = "%2F" THEN "/" ELSE IF text[i] = "%3F" THEN "?" ELSE text[i]]

Quote(text) ==
    [i \in 1 .. Len(text) |-> IF text[i] = "?" THEN "%3F" ELSE text[i]]

StartsWithSlash(text) == Len(text) > 0 /\ text[1] = "/"

\* lines 171-175 and 209-213: where a logged-in client is sent
Destination(next_path) ==
    IF next_path # <<>> /\ StartsWithSlash(Unquote(next_path))
    THEN Unquote(next_path)
    ELSE IndexUrl

\* what a response records: the route, the client and its session before the
\* request, the form fields next_path and csrf_token as submitted, the
\* status, the Location of a redirect, the token rendered into a form, the
\* operations the handler performed in order, the path or file asked for,
\* the progress values returned, the directory listing rendered, the
\* position and duration posted and the password submitted
Response(route, client, before, next_path, submitted, status, location, token, trace, key, body) ==
    [route |-> route, client |-> client, before |-> before, next_path |-> next_path,
     submitted |-> submitted, status |-> status, location |-> location,
     token |-> token, trace |-> trace, key |-> key, body |-> body, listing |-> <<>>,
     posted |-> [position |-> 0, duration |-> 0], password |-> ""]

NoResponse ==
    Response("none", "c1", EmptySession, <<>>, 0, 0, <<>>, 0, <<>>, NoKey, NoRecord)

HttpAtRest ==
    /\ session = [c \in Clients |-> EmptySession]
    /\ minted = 0
    /\ resp = NoResponse

(***************************************************************************)
(* SpecStore: callers on several threads using one ProgressStore           *)
(***************************************************************************)
Callers == 1 .. NCallers

StoreKeys ==
    { PathString(FALSE, <<"a.mp3">>), PathString(FALSE, <<"sub", "b.MP3">>) }

StorePayloads == { Payload(10, 20, FALSE), Payload(0, 20, TRUE) }

\* waited: the lock was held by another caller when the call was made
Call(pc, op, key, payload, data, out, n, waited) ==
    [pc |-> pc, op |-> op, key |-> key, payload |-> payload, data |-> data,
     out |-> out, n |-> n, waited |-> waited]

Idle == Call("idle", "none", NoKey, NoRecord, <<>>, NoOutcome, 0, FALSE)

LockFreeAlways == TRUE

\* Lock.acquire proceeds only while no caller holds the lock
LockFree == lock = 0

\* the contents a run of the program leaves in PROGRESS_FILE: what
\* ensure_storage or a completed _save wrote, or what a _save that the
\* process died in left behind
SavedDicts ==
    { <<>>,
      <<Item(PathString(FALSE, <<"a.mp3">>), Payload(10, 20, TRUE))>> }

RECURSIVE Prefixes(_)
Prefixes(text) ==
    IF text = <<>> THEN { <<>> }
    ELSE { text } \cup Prefixes(SubSeq(text, 1, Len(text) - 1))

\* a text cut short
Truncated(text) == SubSeq(text, 1, Len(text) \div 2)

LeftByProgram ==
    { FileOf(TRUE, text) :
        text \in { Dumps(d) : d \in SavedDicts }
                 \cup { Truncated(Dumps(d)) : d \in SavedDicts } \cup { <<>> } }

RECURSIVE CallsMade(_)
CallsMade(cs) ==
    IF cs = {} THEN 0
    ELSE LET c == CHOOSE x \in cs : TRUE IN call[c].n + CallsMade(cs \ {c})

MayCall(c) == call[c].pc = "idle" /\ CallsMade(Callers) < MaxCalls

InitStore ==
    /\ file \in LeftByProgram
    /\ lock = 0
    /\ call = [c \in Callers |-> Idle]
    /\ written = _load(file).dict
    /\ target = NoKey
    /\ confined = Pending
    /\ HttpAtRest

\* a caller enters get(key) (line 98) or set(key, ...) (lines 103-104)
Enter(c, op, key, payload) ==
    /\ MayCall(c)
    /\ call' = [call EXCEPT ![c] =
            Call("locking", op, key, payload, <<>>, NoOutcome, @.n + 1, lock # 0)]
    /\ UNCHANGED <<file, lock, written, pathVars, httpVars>>

\* get, lines 99-101: the load happens under the lock, the lookup after it
GetLoad(c) ==
    /\ call[c].pc = "locking" /\ call[c].op = "get"
    /\ LockFree
    /\ call' = [call EXCEPT ![c].pc = "done",
                            ![c].out = ProgressStore_get(file, call[c].key)]
    /\ UNCHANGED <<file, lock, written, pathVars, httpVars>>

\* set, lines 105-107: the lock, the load, the item; a loaded value that is
\* no dict makes the item assignment raise, which releases the lock
SetLoad(c) ==
    /\ call[c].pc = "locking" /\ call[c].op = "set"
    /\ LockFree
    /\ LET data == _load(file)
       IN  IF data.kind # "dict"
           THEN /\ call' = [call EXCEPT ![c].pc = "done",
                                        ![c].out = Outcome(TRUE, FALSE, NoRecord)]
                /\ UNCHANGED lock
           ELSE /\ call' = [call EXCEPT ![c].pc = "save",
                                        ![c].data = DictPut(data.dict, call[c].key,
                                                            call[c].payload)]
                /\ lock' = c
    /\ UNCHANGED <<file, written, pathVars, httpVars>>

\* _save, line 96: write_text opens the file for writing
SetOpen(c) ==
    /\ call[c].pc = "save"
    /\ file' = _save_open(file)
    /\ call' = [call EXCEPT ![c].pc = "write"]
    /\ UNCHANGED <<lock, written, pathVars, httpVars>>

\* _save, line 96: the text is written; line 108: the lock is released
SetWrite(c) ==
    /\ call[c].pc = "write"
    /\ file' = _save(call[c].data)
    /\ lock' = IF lock = c THEN 0 ELSE lock
    /\ call' = [call EXCEPT ![c].pc = "done"]
    /\ written' = DictPut(written, call[c].key, call[c].payload)
    /\ UNCHANGED <<pathVars, httpVars>>

\* the call returns to its caller
Return(c) ==
    /\ call[c].pc = "done"
    /\ call' = [call EXCEPT ![c] = [Idle EXCEPT !.n = call[c].n]]
    /\ UNCHANGED <<file, lock, written, pathVars, httpVars>>

NextStore ==
    \/ \E c \in Callers, key \in StoreKeys : Enter(c, "get", key, NoRecord)
    \/ \E c \in Callers, key \in StoreKeys, payload \in StorePayloads :
            Enter(c, "set", key, payload)
    \/ \E c \in Callers : GetLoad(c)
    \/ \E c \in Callers : SetLoad(c)
    \/ \E c \in Callers : SetOpen(c)
    \/ \E c \in Callers : SetWrite(c)
    \/ \E c \in Callers : Return(c)

SpecStore == InitStore /\ [][NextStore]_vars

\* no caller is inside _save
Quiescent == \A c \in Callers : call[c].pc \notin {"save", "write"}

Stored(key) == DictGet(_load(file).dict, key)

\* C3: when callers on several threads call set on different keys of one
\* store, the store ends up holding every key with the payload its caller
\* gave: whenever no _save is under way, each key holds the payload of the
\* last set that completed on it.
NoLostUpdates ==
    Quiescent =>
        \A i \in 1 .. Len(written) :
            Stored(written[i].key) = [found |-> TRUE, rec |-> written[i].val]

\* two callers, one of which had to wait for the lock, have completed sets
\* on different keys and the file holds both payloads
WitnessNoLostUpdates ==
    \E c, d \in Callers :
        /\ call[c].pc = "done" /\ call[c].op = "set" /\ ~call[c].out.raised
        /\ call[d].pc = "done" /\ call[d].op = "set" /\ ~call[d].out.raised
        /\ call[c].key # call[d].key
        /\ call[d].waited
        /\ Stored(call[c].key) = [found |-> TRUE, rec |-> call[c].payload]
        /\ Stored(call[d].key) = [found |-> TRUE, rec |-> call[d].payload]

\* C10: get(k) returns exactly the payload of the last set(k, ...) that
\* completed before it, whether or not k had a record before that set.
SetThenGetRoundTrip ==
    [][\A c \in Callers :
          (call[c].pc = "locking" /\ call[c].op = "get" /\ call'[c].pc = "done"
           /\ HasKey(written, call[c].key))
          => call'[c].out = Outcome(FALSE, TRUE, DictGet(written, call[c].key).rec)]_vars

\* a get has returned the record that a completed set stored for its key
WitnessSetThenGetRoundTrip ==
    \E c \in Callers :
        /\ call[c].pc = "done" /\ call[c].op = "get"
        /\ call[c].key = PathString(FALSE, <<"a.mp3">>)
        /\ call[c].out = Outcome(FALSE, TRUE, Payload(0, 20, TRUE))
        /\ Len(written) = 1

\* the callers between the load of a set and the end of its save
Saving == { c \in Callers : call[c].pc \in {"save", "write"} }

SavingNext == { c \in Callers : call'[c].pc \in {"save", "write"} }

\* C16: a get that runs while other callers call set never reads a
\* partly written file: at most one caller at a time is between its load
\* and the end of its save, no get reads while one is, and so get returns
\* for its key what the last completed set on that key stored, and finds
\* nothing only if no set on that key has completed and the store held no
\* record of it to begin with.
GetSeesWholeSnapshot ==
    [][/\ Cardinality(SavingNext) <= 1
       /\ \A c \in Callers :
             (call[c].pc = "locking" /\ call[c].op = "get" /\ call'[c].pc = "done") =>
                 /\ Saving = {}
                 /\ call'[c].out =
                        Outcome(FALSE, HasKey(written, call[c].key),
                                DictGet(written, call[c].key).rec)]_vars

\* a get that found the lock held when it was called has returned the
\* record stored by the set it waited for
WitnessGetSeesWholeSnapshot ==
    \E c, d \in Callers :
        /\ call[c].pc = "done" /\ call[c].op = "get" /\ call[c].waited
        /\ call[d].pc = "done" /\ call[d].op = "set" /\ call[d].key = call[c].key
        /\ call[c].out = Outcome(FALSE, TRUE, call[d].payload)

\* C17: set(k, ...) leaves the record of every other key as it was and get
\* leaves the file as it was; no call removes a record: the file a set
\* leaves holds a record for k and for every key that had one, and a key
\* with a completed set keeps having one.
SetTouchesOnlyItsKey ==
    [][/\ \A c \in Callers :
             (call[c].pc = "locking" /\ call[c].op = "get" /\ call'[c].pc = "done")
                 => file' = file
       /\ \A c \in Callers :
             (call[c].pc = "write" /\ call'[c].pc = "done") =>
                 \A after \in { _load(file').dict }, key \in StoreKeys :
                     IF key = call[c].key
                     THEN HasKey(after, key)
                     ELSE DictGet(after, key) = DictGet(written, key)
       /\ \A key \in StoreKeys : HasKey(written, key) => HasKey(written', key)]_vars

\* a set on sub/b.MP3 has completed and the record the file held for a.mp3
\* is still there, unchanged
WitnessSetTouchesOnlyItsKey ==
    \E c \in Callers :
        /\ call[c].pc = "done" /\ call[c].op = "set"
        /\ call[c].key = PathString(FALSE, <<"sub", "b.MP3">>)
        /\ Stored(call[c].key) = [found |-> TRUE, rec |-> call[c].payload]
        /\ Stored(PathString(FALSE, <<"a.mp3">>))
               = [found |-> TRUE, rec |-> Payload(10, 20, TRUE)]

(***************************************************************************)
(* SpecCorrupt: the store on a backing file that holds no well-formed      *)
(* progress mapping                                                        *)
(***************************************************************************)
\* texts that are valid JSON but no object
NotAnObject == { <<Punct("["), Punct("]")>>, <<LitTok("null")>>, <<NumTok(7)>> }

\* texts cut short: every proper prefix of a saved text
CutShort ==
    UNION { Prefixes(Dumps(d)) \ { Dumps(d) } : d \in SavedDicts }

NotWellFormed ==
    { FileOf(TRUE, text) : text \in CutShort \cup NotAnObject }

InitCorrupt ==
    /\ file \in NotWellFormed
    /\ lock = 0
    /\ call = [c \in Callers |-> Idle]
    /\ written = <<>>
    /\ target = NoKey
    /\ confined = Pending
    /\ HttpAtRest

SpecCorrupt == InitCorrupt /\ [][NextStore]_vars

\* C9: on a backing file that is empty, truncated or otherwise no
\* well-formed progress mapping, no call raises, a first get finds nothing
\* and a first set leaves a store holding exactly the new key.
CorruptFileActsAsEmpty ==
    \A c \in Callers :
        call[c].pc = "done" =>
            /\ ~call[c].out.raised
            /\ (call[c].op = "get" /\ CallsMade(Callers) = 1) => ~call[c].out.found
            /\ (call[c].op = "set" /\ CallsMade(Callers) = 1) =>
                   _load(file) = Decoded("dict", <<Item(call[c].key, call[c].payload)>>)

(***************************************************************************)
(* SpecPath: the confinement check applied to every candidate string       *)
(***************************************************************************)
InitPath ==
    /\ target \in Candidates
    /\ confined = Pending
    /\ file = ensure_storage(FileOf(FALSE, <<>>))
    /\ lock = 0
    /\ call = [c \in Callers |-> Idle]
    /\ written = <<>>
    /\ HttpAtRest

Validate ==
    /\ confined = Pending
    /\ confined' = validate_within_media_root(JoinRoot(target))
    /\ UNCHANGED <<target, file, storeVars, httpVars>>

NextPath == Validate

SpecPath == InitPath /\ [][NextPath]_vars

\* where a path string leads, followed from the media root one segment at a
\* time: `up` levels above the root and then down the names in `down`
Walked(up, down) == [up |-> up, down |-> down]

RECURSIVE WalkFrom(_, _)
WalkFrom(at, segs) ==
    IF segs = <<>> THEN at
    ELSE LET seg == Head(segs)
             next ==
                 IF seg = "." THEN at
                 ELSE IF seg = ".."
                      THEN IF at.down # <<>>
                           THEN Walked(at.up, SubSeq(at.down, 1, Len(at.down) - 1))
                           ELSE Walked(IF at.up < Len(MEDIA_ROOT) THEN at.up + 1 ELSE at.up,
                                       <<>>)
                 ELSE Walked(at.up, Append(at.down, seg))
         IN  WalkFrom(next, Tail(segs))

Walk(p) == WalkFrom(Walked(IF p.abs THEN Len(MEDIA_ROOT) ELSE 0, <<>>), p.segs)

\* the walk ends at the root or below it: the names that lead down again
\* are those of the levels that were climbed
EndsWithinRoot(p) ==
    LET at == Walk(p)
    IN  /\ Len(at.down) >= at.up
        /\ SubSeq(at.down, 1, at.up)
               = SubSeq(MEDIA_ROOT, Len(MEDIA_ROOT) - at.up + 1, Len(MEDIA_ROOT))

FollowsNoSymlink(p) == \A i \in 1 .. Len(p.segs) : p.segs[i] # "lnk"

IsOrIsUnderRoot(c) ==
    Len(c) >= Len(MEDIA_ROOT) /\ SubSeq(c, 1, Len(MEDIA_ROOT)) = MEDIA_ROOT

\* C2: for every candidate path string the check either returns a canonical
\* path that is the media root or lies under it, or fails with the 400
\* error; a string that follows no symbolic link is accepted exactly when
\* its segments end at the root or below it ("." and the empty string give
\* the root itself), and refused when its ".." segments or its absolute form
\* end outside.
ConfinementDecides ==
    confined # Pending =>
        /\ confined.status \in {200, 400}
        /\ confined.status = 200 => IsOrIsUnderRoot(confined.path)
        /\ FollowsNoSymlink(target) => (confined.status = 200 <=> EndsWithinRoot(target))
        /\ target.segs \in { <<>>, <<".">> } /\ ~target.abs
               => confined = [status |-> 200, path |-> MEDIA_ROOT]

\* the string "../../etc" has been refused
WitnessConfinementDecides ==
    /\ target = PathString(FALSE, <<"..", "..", "etc">>)
    /\ confined.status = 400

(***************************************************************************)
(* SpecCatalog: list_directory applied to every candidate string           *)
(***************************************************************************)
\* progress files a run of the program leaves: as created, and with a.mp3
\* marked played
CatalogFiles ==
    { ensure_storage(FileOf(FALSE, <<>>)),
      _save(<<Item(PathString(FALSE, <<"a.mp3">>), Payload(0, 20, TRUE))>>) }

InitCatalog ==
    /\ target \in Candidates
    /\ confined = Pending
    /\ file \in CatalogFiles
    /\ lock = 0
    /\ call = [c \in Callers |-> Idle]
    /\ written = <<>>
    /\ HttpAtRest

\* one call of list_directory(target); the response records its outcome
ListDirectory ==
    /\ resp = NoResponse
    /\ LET directory_data == list_directory(target, file)
       IN  resp' = [Response("list_directory", "c1", EmptySession, <<>>, 0,
                             directory_data.status, <<>>, 0, directory_data.trace,
                             target, NoRecord)
                     EXCEPT !.listing = directory_data.listing]
    /\ UNCHANGED <<target, confined, file, storeVars, session, minted>>

NextCatalog == ListDirectory

SpecCatalog == InitCatalog /\ [][NextCatalog]_vars

ListedNames(listing) == [i \in 1 .. Len(listing) |-> listing[i].name]

\* what the two directories under the media root are to show
ShownIn(dir) ==
    IF dir = MEDIA_ROOT THEN << "sub", "a.mp3", "B.wav" >>
    ELSE IF dir = <<"srv", "media", "sub">> THEN << "lnk", "b.MP3" >>
    ELSE <<>>

\* C12: for a path that leads to an existing directory inside the media
\* root, list_directory returns the entries whose name does not start with
\* ".", directories first and then the files with an audio extension
\* (compared without regard to case), each group in ascending name order
\* without regard to case: the root, holding a.mp3, B.wav, sub/, notes.txt
\* and .hidden.mp3, yields [sub, a.mp3, B.wav]; a confined path that is
\* missing or no directory fails with 404.
ListingIsOrdered ==
    (resp.route = "list_directory" /\ IsOrIsUnderRoot(Resolve(JoinRoot(target)))) =>
        LET dir == Resolve(JoinRoot(target))
            listing == resp.listing
        IN  IF dir \notin Dirs
            THEN resp.status = 404 /\ listing = <<>>
            ELSE /\ resp.status = 200
                 /\ ListedNames(listing) = ShownIn(dir)
                 /\ \A i \in 1 .. Len(listing) :
                        /\ listing[i].name \notin { ".hidden.mp3", "notes.txt" }
                        /\ listing[i].path.segs =
                               SubSeq(dir, Len(MEDIA_ROOT) + 1, Len(dir)) \o <<listing[i].name>>
                        /\ ~listing[i].dir =>
                               Lower(Suffix(listing[i].name)) \in AUDIO_EXTENSIONS
                 /\ \A i, j \in 1 .. Len(listing) :
                        i < j =>
                            /\ listing[i].dir \/ ~listing[j].dir
                            /\ listing[i].dir = listing[j].dir =>
                                   NameRank(listing[i].name) < NameRank(listing[j].name)

\* the root was listed through the string "sub/.." and gave sub, a.mp3,
\* B.wav in that order
WitnessListingIsOrdered ==
    /\ resp.route = "list_directory" /\ resp.status = 200
    /\ target = PathString(FALSE, <<"sub", "..">>)
    /\ ListedNames(resp.listing) = << "sub", "a.mp3", "B.wav" >>
    /\ resp.listing[2].played

(***************************************************************************)
(* Spec: the HTTP handlers.  Each is an async function that never awaits,  *)
(* so the event loop runs one handler to its end before the next.          *)
(***************************************************************************)
AUTH_PASSWORD == "secret"
Passwords == { "secret", "guess" }

NextPaths ==
    { <<>>, <<"/">>, <<"/", "sub">>, <<"sub">>, <<"%2F", "sub">>,
      <<"/", "/", "evil">>, <<"http://evil", "/">> }

Init ==
    /\ HttpAtRest
    /\ file = ensure_storage(FileOf(FALSE, <<>>))
    /\ lock = 0
    /\ call = [c \in Callers |-> Idle]
    /\ written = <<>>
    /\ target = NoKey
    /\ confined = Pending

\* GET /login, lines 167-183
login_page(c, next_path) ==
    LET s == session[c]
        ens == ensure_csrf_token(s, minted + 1)
    IN  IF is_authenticated(s)
        THEN /\ resp' = Response("login_page", c, s, next_path, 0, 303,
                                  Destination(next_path), 0, <<"is_authenticated">>,
                                  NoKey, NoRecord)
             /\ UNCHANGED <<session, minted>>
        ELSE /\ minted + ens.mints <= MaxTokens
             /\ session' = [session EXCEPT ![c] = ens.session]
             /\ minted' = minted + ens.mints
             /\ resp' = Response("login_page", c, s, next_path, 0, 200, <<>>, ens.token,
                                  <<"is_authenticated">>, NoKey, NoRecord)

PopNothing(s) == s

\* request.session.pop(CSRF_SESSION_KEY, None), line 207
PopCsrfToken(s) == [s EXCEPT !.csrf_token = 0]

\* POST /login, lines 186-224
login_submit(c, password, csrf_token, next_path) ==
    LET s == session[c]
    IN  IF ~validate_csrf_token(s, csrf_token)
        THEN LET ens == ensure_csrf_token(s, minted + 1)
             IN  /\ minted + ens.mints <= MaxTokens
                 /\ session' = [session EXCEPT ![c] = ens.session]
                 /\ minted' = minted + ens.mints
                 /\ resp' = [Response("login_submit", c, s, next_path, csrf_token, 400,
                                       <<>>, ens.token, <<>>, NoKey, NoRecord)
                               EXCEPT !.password = password]
        ELSE IF password = AUTH_PASSWORD
        THEN LET ens == ensure_csrf_token(
                            PopCsrfToken([s EXCEPT !.authenticated = TRUE]), minted + 1)
             IN  /\ minted + ens.mints <= MaxTokens
                 /\ session' = [session EXCEPT ![c] = ens.session]
                 /\ minted' = minted + ens.mints
                 /\ resp' = [Response("login_submit", c, s, next_path, csrf_token, 303,
                                       Destination(next_path), 0, <<>>, NoKey, NoRecord)
                               EXCEPT !.password = password]
        ELSE LET ens == ensure_csrf_token(s, minted + 1)
             IN  /\ minted + ens.mints <= MaxTokens
                 /\ session' = [session EXCEPT ![c] = ens.session]
                 /\ minted' = minted + ens.mints
                 /\ resp' = [Response("login_submit", c, s, next_path, csrf_token, 401,
                                       <<>>, ens.token, <<>>, NoKey, NoRecord)
                               EXCEPT !.password = password]

ClearAuthenticatedOnly(s) == [s EXCEPT !.authenticated = FALSE]

\* request.session.clear(), line 233
SessionClear(s) == EmptySession

\* POST /logout, lines 227-236
logout(c, csrf_token) ==
    LET s == session[c]
    IN  IF ~validate_csrf_token(s, csrf_token)
        THEN /\ resp' = Response("logout", c, s, <<>>, csrf_token, 403, <<>>, 0, <<>>,
                                  NoKey, NoRecord)
             /\ UNCHANGED <<session, minted>>
        ELSE /\ session' = [session EXCEPT ![c] = SessionClear(s)]
             /\ resp' = Response("logout", c, s, <<>>, csrf_token, 303, LoginUrl, 0, <<>>,
                                  NoKey, NoRecord)
             /\ UNCHANGED minted

\* the path strings that requests carry
RequestPaths ==
    { PathString(FALSE, <<>>),
      PathString(FALSE, <<"a.mp3">>),
      PathString(FALSE, <<"notes.txt">>),
      PathString(FALSE, <<"nope.mp3">>),
      PathString(FALSE, <<"..", "..", "etc", "passwd">>) }

\* the values posted as progress
Positions == { -1, 10, 19 }
Durations == { -1, 20 }

\* the bodies of POST /api/progress: every position with a positive
\* duration and one with a negative duration, for the paths that name an
\* audio file; one body for each of the other paths
PostedValues == { pd \in Positions \X Durations : pd[2] > 0 \/ pd[1] = 10 }

ProgressPosts ==
    { <<path, pd[1], pd[2]>> :
        path \in { q \in RequestPaths : get_audio_file(q).status = 200 },
        pd \in PostedValues }
    \cup { <<path, 10, 20>> :
             path \in { q \in RequestPaths : get_audio_file(q).status # 200 } }

\* the tokens a form submits: none, or one that some session holds
SubmittedTokens == { 0 } \cup { session[d].csrf_token : d \in Clients }

\* the next_path sent together with the file routes
SomeNextPaths == { <<"/", "sub">> }

\* login_redirect, lines 156-164
login_redirect(path) ==
    LoginUrl \o <<"?", "next=">>
        \o Quote(<<"/">> \o (IF path = PathString(FALSE, <<>>) THEN <<>> ELSE <<"?", "path=">>))

\* GET /, lines 287-306
index(c, path) ==
    LET s == session[c]
    IN  IF ~is_authenticated(s)
        THEN /\ resp' = Response("index", c, s, <<>>, 0, 303, login_redirect(path), 0,
                                  <<"is_authenticated">>, path, NoRecord)
             /\ UNCHANGED <<session, minted>>
        ELSE LET directory_data == list_directory(path, file)
                 ens == ensure_csrf_token(s, minted + 1)
             IN  IF directory_data.status # 200
                 THEN /\ resp' = Response("index", c, s, <<>>, 0, directory_data.status,
                                           <<>>, 0,
                                           <<"is_authenticated">> \o directory_data.trace,
                                           path, NoRecord)
                      /\ UNCHANGED <<session, minted>>
                 ELSE /\ minted + ens.mints <= MaxTokens
                      /\ session' = [session EXCEPT ![c] = ens.session]
                      /\ minted' = minted + ens.mints
                      /\ resp' = [Response("index", c, s, <<>>, 0, 200, <<>>, ens.token,
                                            <<"is_authenticated">> \o directory_data.trace,
                                            path, NoRecord)
                                    EXCEPT !.listing = directory_data.listing]

\* GET /media, lines 318-331
media(c, path) ==
    LET s == session[c]
        found == get_audio_file(path)
    IN  /\ resp' =
            IF ~is_authenticated(s)
            THEN Response("media", c, s, <<>>, 0, 401, <<>>, 0, <<"is_authenticated">>,
                          path, NoRecord)
            ELSE IF found.status # 200
            THEN Response("media", c, s, <<>>, 0, found.status, <<>>, 0,
                          <<"is_authenticated">> \o found.trace, path, NoRecord)
            ELSE Response("media", c, s, <<>>, 0, 200, <<>>, 0,
                          <<"is_authenticated">> \o found.trace \o <<"serve">>, path,
                          NoRecord)
       /\ UNCHANGED <<session, minted>>

\* GET /api/progress, lines 334-352
get_progress(c, path) ==
    LET s == session[c]
        found == get_audio_file(path)
        progress == ProgressStore_get(file, path)
    IN  /\ resp' =
            IF ~is_authenticated(s)
            THEN Response("get_progress", c, s, <<>>, 0, 401, <<>>, 0,
                          <<"is_authenticated">>, path, NoRecord)
            ELSE IF found.status # 200
            THEN Response("get_progress", c, s, <<>>, 0, found.status, <<>>, 0,
                          <<"is_authenticated">> \o found.trace, path, NoRecord)
            ELSE Response("get_progress", c, s, <<>>, 0,
                          IF progress.raised THEN 500 ELSE 200, <<>>, 0,
                          <<"is_authenticated">> \o found.trace \o <<"store_get">>, path,
                          IF progress.found THEN progress.rec ELSE Payload(0, 0, FALSE))
       /\ UNCHANGED <<session, minted>>

\* max(x, 0.0), lines 362-363
Clamp(x) == IF x > 0 THEN x ELSE 0

PlayedBeforeIgnored(existing) == FALSE

\* bool((progress_store.get(file) or {}).get("played")), lines 364-365
PlayedBefore(existing) == existing.found /\ existing.rec.played

NearEndStrict(position, duration) == duration > 0 /\ position * 100 > duration * 95

\* duration > 0 and position >= duration * 0.95, line 366
NearEnd(position, duration) == duration > 0 /\ position * 100 >= duration * 95

\* lines 362-368: the record that set_progress stores
Policy(existing, position, duration) ==
    IF NearEnd(Clamp(position), Clamp(duration))
    THEN Payload(0, Clamp(duration), TRUE)
    ELSE Payload(Clamp(position), Clamp(duration), PlayedBefore(existing))

\* POST /api/progress, lines 355-377
set_progress(c, path, position, duration) ==
    LET s == session[c]
        found == get_audio_file(path)
        existing == ProgressStore_get(file, path)
        payload == Policy(existing, position, duration)
    IN  /\ UNCHANGED <<session, minted>>
        /\ IF ~is_authenticated(s)
           THEN /\ resp' = Response("set_progress", c, s, <<>>, 0, 401, <<>>, 0,
                                     <<"is_authenticated">>, path, NoRecord)
                /\ UNCHANGED file
           ELSE IF found.status # 200
           THEN /\ resp' = Response("set_progress", c, s, <<>>, 0, found.status, <<>>, 0,
                                     <<"is_authenticated">> \o found.trace, path, NoRecord)
                /\ UNCHANGED file
           ELSE IF existing.raised
           THEN /\ resp' = Response("set_progress", c, s, <<>>, 0, 500, <<>>, 0,
                                     <<"is_authenticated">> \o found.trace \o <<"store_get">>,
                                     path, NoRecord)
                /\ UNCHANGED file
           ELSE /\ file' = ProgressStore_set(file, path, payload)
                /\ resp' = [Response("set_progress", c, s, <<>>, 0, 200, <<>>, 0,
                                      <<"is_authenticated">> \o found.trace
                                          \o <<"store_get", "store_set">>,
                                      path, payload)
                              EXCEPT !.posted = [position |-> position,
                                                 duration |-> duration]]

Next ==
    \/ \E c \in Clients, path \in RequestPaths :
            index(c, path) /\ UNCHANGED <<file, storeVars, pathVars>>
    \/ \E c \in Clients, path \in RequestPaths :
            media(c, path) /\ UNCHANGED <<file, storeVars, pathVars>>
    \/ \E c \in Clients, path \in RequestPaths :
            get_progress(c, path) /\ UNCHANGED <<file, storeVars, pathVars>>
    \/ \E c \in Clients, post \in ProgressPosts :
            set_progress(c, post[1], post[2], post[3]) /\ UNCHANGED <<storeVars, pathVars>>
    \/ \E c \in Clients, next_path \in SomeNextPaths :
            login_page(c, next_path) /\ UNCHANGED <<file, storeVars, pathVars>>
    \/ \E c \in Clients, password \in Passwords, csrf_token \in SubmittedTokens,
           next_path \in SomeNextPaths :
            login_submit(c, password, csrf_token, next_path)
            /\ UNCHANGED <<file, storeVars, pathVars>>
    \/ \E c \in Clients, csrf_token \in SubmittedTokens :
            logout(c, csrf_token) /\ UNCHANGED <<file, storeVars, pathVars>>

Spec == Init /\ [][Next]_vars

GatedRoutes == { "index", "media", "get_progress", "set_progress" }

StoredIn(f, key) == DictGet(_load(f).dict, key)

Performed(r, what) == \E i \in 1 .. Len(r.trace) : r.trace[i] = what

\* C1: a request to GET /, GET /media, GET /api/progress or POST
\* /api/progress from a session without the authenticated flag ends in a
\* redirect to the login page (GET /) or in 401 (the others), having done
\* nothing but the authentication test: no path resolution, no filesystem
\* access, no store get or set, the progress file and the sessions as they
\* were; and a store write or a file serve happens only for a session that
\* was authenticated.
UnauthenticatedStopsAtGate ==
    [][resp'.route \in GatedRoutes =>
          /\ ~resp'.before.authenticated =>
                /\ resp'.status = IF resp'.route = "index" THEN 303 ELSE 401
                /\ resp'.route = "index" =>
                       SubSeq(resp'.location, 1, Len(LoginUrl)) = LoginUrl
                /\ resp'.trace = <<"is_authenticated">>
                /\ file' = file
                /\ session' = session
          /\ (Performed(resp', "store_set") \/ Performed(resp', "serve") \/ file' # file)
                => /\ resp'.before.authenticated
                   /\ session[resp'.client].authenticated]_vars

\* a client without the flag was refused POST /api/progress with 401 while
\* the other client was logged in
WitnessUnauthenticatedStopsAtGate ==
    /\ resp.route = "set_progress" /\ resp.status = 401
    /\ ~session[resp.client].authenticated
    /\ \E c \in Clients : session[c].authenticated

\* C4: played is sticky: once the stored record of a file has played = true
\* it has played = true after every later request, whatever position and
\* duration a later POST /api/progress reports.
PlayedIsSticky ==
    [][file' # file =>
          \A key \in RequestPaths :
              (StoredIn(file, key).found /\ StoredIn(file, key).rec.played)
              => (StoredIn(file', key).found /\ StoredIn(file', key).rec.played)]_vars

\* a later update that reported position 10 of 20 was stored as played
WitnessPlayedIsSticky ==
    /\ resp.route = "set_progress" /\ resp.status = 200
    /\ resp.posted = [position |-> 10, duration |-> 20]
    /\ StoredIn(file, resp.key) = [found |-> TRUE, rec |-> Payload(10, 20, TRUE)]

\* C5: an accepted POST /api/progress stores, with position and duration
\* first raised to at least 0, {0, duration, played: true} if duration > 0
\* and position >= 95% of duration, and otherwise {position, duration,
\* played: the played value stored before, false if there was no record};
\* the response carries the values stored.
ProgressPolicy ==
    [][(resp'.route = "set_progress" /\ resp'.status = 200) =>
          LET p == IF resp'.posted.position < 0 THEN 0 ELSE resp'.posted.position
              d == IF resp'.posted.duration < 0 THEN 0 ELSE resp'.posted.duration
              before == StoredIn(file, resp'.key)
              expected ==
                  IF d > 0 /\ 100 * p >= 95 * d
                  THEN Payload(0, d, TRUE)
                  ELSE Payload(p, d, before.found /\ before.rec.played)
          IN  /\ StoredIn(file', resp'.key) = [found |-> TRUE, rec |-> expected]
              /\ resp'.body = expected]_vars

\* position 19 of 20, exactly 95%, was stored as {0, 20, played}
WitnessProgressPolicy ==
    /\ resp.route = "set_progress" /\ resp.status = 200
    /\ resp.posted = [position |-> 19, duration |-> 20]
    /\ resp.body = Payload(0, 20, TRUE)
    /\ StoredIn(file, resp.key) = [found |-> TRUE, rec |-> Payload(0, 20, TRUE)]

\* the operations that touch the filesystem or the store by the request's path
KeyedByPath == { "stat", "iterdir", "serve", "store_get", "store_set" }

\* C14: in GET /, GET /media, GET /api/progress and POST /api/progress the
\* confinement check on the request's path comes before every existence or
\* type test, directory iteration, file serve and store get or set for that
\* path; when the path leads out of the media root the request ends with
\* 400 and none of those operations happens.
ConfinementComesFirst ==
    [][(resp'.route \in GatedRoutes /\ resp'.before.authenticated) =>
          LET t == resp'.trace
          IN  /\ \A i \in 1 .. Len(t) :
                     t[i] \in KeyedByPath => \E j \in 1 .. (i - 1) : t[j] = "resolve"
              /\ ~IsOrIsUnderRoot(Resolve(JoinRoot(resp'.key))) =>
                     /\ resp'.status = 400
                     /\ \A i \in 1 .. Len(t) : t[i] \notin KeyedByPath
                     /\ file' = file]_vars

\* a logged-in client asked GET /media for ../../etc/passwd and got 400
WitnessConfinementComesFirst ==
    /\ resp.route = "media" /\ resp.status = 400
    /\ resp.before.authenticated
    /\ resp.key = PathString(FALSE, <<"..", "..", "etc", "passwd">>)
    /\ resp.trace = <<"is_authenticated", "resolve">>

\* the path string leads to a regular file inside the media root whose
\* extension is in the allow-list
NamesAudioFile(p) ==
    LET c == Resolve(JoinRoot(p))
    IN  /\ IsOrIsUnderRoot(c)
        /\ c \in Files
        /\ Lower(Suffix(NameOf(c))) \in AUDIO_EXTENSIONS

KeysOf(f) == { _load(f).dict[i].key : i \in 1 .. Len(_load(f).dict) }

\* C15: a POST /api/progress that fails - 401 without the authenticated
\* flag, 400 for a path outside the media root, 404 for a missing file or a
\* directory, 400 for an extension outside the allow-list - leaves the
\* progress file exactly as it was; the file changes only in an accepted
\* POST, which adds no key but its own, so that every key in the store
\* named an existing audio file inside the media root when it was written.
FailedPostChangesNothing ==
    [][/\ resp'.route = "set_progress" =>
             LET c == Resolve(JoinRoot(resp'.key))
                 expected ==
                     IF ~resp'.before.authenticated THEN 401
                     ELSE IF ~IsOrIsUnderRoot(c) THEN 400
                     ELSE IF c \notin Files THEN 404
                     ELSE IF ~NamesAudioFile(resp'.key) THEN 400
                     ELSE 200
             IN  /\ resp'.status = expected
                 /\ expected # 200 => file' = file
       /\ file' # file =>
             /\ resp'.route = "set_progress" /\ resp'.status = 200
             /\ NamesAudioFile(resp'.key)
             /\ KeysOf(file') = KeysOf(file) \cup { resp'.key }
       /\ \A key \in KeysOf(file') : NamesAudioFile(key)]_vars

\* a logged-in client's POST for notes.txt was refused with 400 and the
\* store still holds the one record written before
WitnessFailedPostChangesNothing ==
    /\ resp.route = "set_progress" /\ resp.status = 400
    /\ resp.before.authenticated
    /\ resp.key = PathString(FALSE, <<"notes.txt">>)
    /\ KeysOf(file) = { PathString(FALSE, <<"a.mp3">>) }

(***************************************************************************)
(* SpecSession: the login and logout routes alone, over every next_path    *)
(***************************************************************************)
NextSession ==
    \/ \E c \in Clients, next_path \in NextPaths :
            login_page(c, next_path) /\ UNCHANGED <<file, storeVars, pathVars>>
    \/ \E c \in Clients, password \in Passwords, csrf_token \in Tokens,
           next_path \in NextPaths :
            login_submit(c, password, csrf_token, next_path)
            /\ UNCHANGED <<file, storeVars, pathVars>>
    \/ \E c \in Clients, csrf_token \in Tokens :
            logout(c, csrf_token) /\ UNCHANGED <<file, storeVars, pathVars>>

SpecSession == Init /\ [][NextSession]_vars

\* C6: after a successful login the session accepts the token minted
\* during that login and no other: not the token it held before, not the
\* token that was submitted, nor any token issued earlier.
LoginRotatesToken ==
    (resp.route = "login_submit" /\ resp.status = 303) =>
        LET s == session[resp.client]
        IN  /\ validate_csrf_token(s, minted)
            /\ \A t \in Tokens : t # minted => ~validate_csrf_token(s, t)
            /\ resp.before.csrf_token # minted
            /\ ~validate_csrf_token(s, resp.before.csrf_token)
            /\ ~validate_csrf_token(s, resp.submitted)

\* a client has logged in with the token its login form carried
WitnessLoginRotatesToken ==
    /\ resp.route = "login_submit" /\ resp.status = 303
    /\ resp.before.csrf_token # 0
    /\ resp.submitted = resp.before.csrf_token
    /\ session[resp.client].authenticated

\* C7: POST /logout with a token that validate_csrf_token accepts clears
\* the whole session (not authenticated, no token stored); with a missing
\* or mismatched token it fails with 403 and the session is as before.
LogoutClearsOrRefuses ==
    resp.route = "logout" =>
        IF validate_csrf_token(resp.before, resp.submitted)
        THEN /\ resp.status = 303
             /\ ~session[resp.client].authenticated
             /\ session[resp.client].csrf_token = 0
        ELSE /\ resp.status = 403
             /\ session[resp.client] = resp.before

\* a logged-in client has logged out
WitnessLogoutClearsOrRefuses ==
    /\ resp.route = "logout" /\ resp.status = 303
    /\ resp.before.authenticated
    /\ session[resp.client] = EmptySession

\* the routes that render a form, calling ensure_csrf_token for its token
FormRendered(r) ==
    r.route \in {"login_page", "login_submit"} /\ r.status \in {200, 400, 401}

\* C11: ensure_csrf_token is idempotent within a session: as long as no
\* login succeeds and no logout happens, every call returns the token the
\* session already holds and leaves the session as it is; only a call on a
\* session without a token stores one, and a second call straight after it
\* returns that token again.
EnsureCsrfTokenIdempotent ==
    [][/\ FormRendered(resp') =>
             /\ resp'.before.csrf_token # 0 =>
                    /\ resp'.token = resp'.before.csrf_token
                    /\ session' = session
                    /\ minted' = minted
             /\ resp'.before.csrf_token = 0 =>
                    /\ resp'.token # 0
                    /\ session' = [session EXCEPT ![resp'.client].csrf_token = resp'.token]
       /\ \A c \in Clients :
             LET first == ensure_csrf_token(session'[c], minted' + 1)
                 again == ensure_csrf_token(first.session, minted' + 2)
             IN  /\ again.token = first.token
                 /\ again.session = first.session
                 /\ session'[c].csrf_token # 0 => first.session = session'[c]]_vars

\* a login form was rendered a second time for a session that already held
\* a token, and carried that token again
WitnessEnsureCsrfTokenIdempotent ==
    /\ resp.route = "login_page" /\ resp.status = 200
    /\ resp.before.csrf_token # 0
    /\ resp.token = resp.before.csrf_token
    /\ session[resp.client] = resp.before

\* C13: the authenticated flag of a session becomes true only in a POST
\* /login that carries the token the session holds and the configured
\* password; a POST /login whose token is missing or is not the session's
\* gets 400 even with the right password, one with the right token and a
\* wrong password gets 401, and both leave the flag as it was.
LoginNeedsTokenAndPassword ==
    [][/\ \A c \in Clients :
             (~session[c].authenticated /\ session'[c].authenticated) =>
                 /\ resp'.route = "login_submit" /\ resp'.client = c
                 /\ resp'.submitted # 0 /\ resp'.submitted = session[c].csrf_token
                 /\ resp'.password = AUTH_PASSWORD
       /\ resp'.route = "login_submit" =>
             LET c == resp'.client
                 tokenValid ==
                     resp'.submitted # 0 /\ resp'.submitted = session[c].csrf_token
             IN  IF ~tokenValid
                 THEN /\ resp'.status = 400
                      /\ session'[c].authenticated = session[c].authenticated
                 ELSE IF resp'.password # AUTH_PASSWORD
                 THEN /\ resp'.status = 401
                      /\ session'[c].authenticated = session[c].authenticated
                 ELSE resp'.status = 303 /\ session'[c].authenticated]_vars

\* the right password sent with a token that is not the session's got 400
\* and the session stayed unauthenticated
WitnessLoginNeedsTokenAndPassword ==
    /\ resp.route = "login_submit" /\ resp.status = 400
    /\ resp.password = AUTH_PASSWORD
    /\ resp.before.csrf_token # 0
    /\ resp.submitted \notin {0, resp.before.csrf_token}
    /\ ~session[resp.client].authenticated

\* C18: a POST /login with the session's token and a wrong password gets
\* 401 and the login form again, carrying a fresh token: one that differs
\* from the token the session held before the attempt.
FailedLoginGetsFreshToken ==
    (resp.route = "login_submit" /\ resp.status = 401) =>
        /\ resp.token # 0
        /\ resp.token # resp.before.csrf_token
        /\ session[resp.client].csrf_token = resp.token

\* a location that is an absolute path on the origin of the application:
\* it starts with one "/", not with the "//" of a network-path reference
SameOriginPath(text) ==
    StartsWithSlash(text) /\ ~(Len(text) >= 2 /\ text[2] = "/")

\* C8: after a successful login the redirect goes to the next location the
\* caller supplied only if that is an absolute path on this origin, and to
\* the index for every other value: empty, relative, or on another origin.
LoginRedirectStaysOnOrigin ==
    (resp.route = "login_submit" /\ resp.status = 303) =>
        IF SameOriginPath(Unquote(resp.next_path))
        THEN resp.location = Unquote(resp.next_path)
        ELSE resp.location = IndexUrl

(***************************************************************************)
(* SpecWorkers: POST /api/progress handled by several workers at once.     *)
(* Between progress_store.get (line 364) and progress_store.set (line 369) *)
(* a handler holds no lock, so another worker's handler can run there.     *)
(* Each store call is taken as one step, as under a lock all workers       *)
(* share.                                                                  *)
(***************************************************************************)
Workers == Callers

\* the session of a client after GET /login and a successful POST /login
LoggedIn == Session(TRUE, 2)

InitWorkers ==
    /\ session = [c \in Clients |-> IF c = "c1" THEN LoggedIn ELSE EmptySession]
    /\ minted = 2
    /\ resp = NoResponse
    /\ file = ensure_storage(FileOf(FALSE, <<>>))
    /\ lock = 0
    /\ call = [w \in Workers |-> Idle]
    /\ written = <<>>
    /\ target = NoKey
    /\ confined = Pending

\* lines 357-365: the gate, get_audio_file and progress_store.get; a request
\* that is refused ends here
WorkerBegin(w, c, path, position, duration) ==
    /\ MayCall(w)
    /\ LET refused == ~is_authenticated(session[c]) \/ get_audio_file(path).status # 200
           existing == ProgressStore_get(file, path)
       IN  call' = [call EXCEPT ![w] =
                IF refused
                THEN Call("done", "refused", path, NoRecord, <<>>, NoOutcome, @.n + 1, FALSE)
                ELSE Call("computed", "set_progress", path,
                          Policy(existing, position, duration), <<>>, existing,
                          @.n + 1, FALSE)]
    /\ UNCHANGED <<file, lock, written, pathVars, httpVars>>

\* line 369: progress_store.set with the record computed from what was read
WorkerStore(w) ==
    /\ call[w].pc = "computed"
    /\ file' = ProgressStore_set(file, call[w].key, call[w].payload)
    /\ written' = DictPut(written, call[w].key, call[w].payload)
    /\ call' = [call EXCEPT ![w].pc = "done"]
    /\ UNCHANGED <<lock, pathVars, httpVars>>

NextWorkers ==
    \/ \E w \in Workers, c \in Clients, post \in ProgressPosts :
            WorkerBegin(w, c, post[1], post[2], post[3])
    \/ \E w \in Workers : WorkerStore(w)
    \/ \E w \in Workers : Return(w)

SpecWorkers == InitWorkers /\ [][NextWorkers]_vars

\* C19: when POST /api/progress requests for one file are handled by
\* different workers at the same time, the stored record is one that the
\* requests handled one after the other would give: a record stored with
\* played = true is not replaced by one with played = false that another
\* request computed from what it read before.
ConcurrentPostsKeepPlayed ==
    [][file' # file =>
          \A w \in Workers :
              (StoredIn(file, call[w].key).found /\ StoredIn(file, call[w].key).rec.played)
              => StoredIn(file', call[w].key).rec.played]_vars

(***************************************************************************)
(* SpecAlias: the file routes asked with several path strings that lead to *)
(* the same file                                                           *)
(***************************************************************************)
AliasPaths ==
    { PathString(FALSE, <<"a.mp3">>),
      PathString(FALSE, <<".", "a.mp3">>),
      PathString(FALSE, <<"sub", "..", "a.mp3">>) }

AliasDirs == { PathString(FALSE, <<>>), PathString(FALSE, <<"sub", "..">>) }

AliasPosts == { <<10, 20>>, <<19, 20>> }

NextAlias ==
    \/ \E c \in Clients, path \in AliasDirs :
            index(c, path) /\ UNCHANGED <<file, storeVars, pathVars>>
    \/ \E c \in Clients, path \in AliasPaths :
            get_progress(c, path) /\ UNCHANGED <<file, storeVars, pathVars>>
    \/ \E c \in Clients, path \in AliasPaths, post \in AliasPosts :
            set_progress(c, path, post[1], post[2]) /\ UNCHANGED <<storeVars, pathVars>>

SpecAlias == InitWorkers /\ [][NextAlias]_vars

\* the path strings that get_audio_file accepts for the file p leads to
SameFile(p) ==
    { q \in AliasPaths :
        /\ get_audio_file(q).status = 200
        /\ get_audio_file(q).path = get_audio_file(p).path }

\* what GET /api/progress answers for a file, and what the listing of the
\* media root shows for an entry
Reported(f, p) ==
    LET progress == ProgressStore_get(f, p)
    IN  IF progress.found THEN progress.rec ELSE Payload(0, 0, FALSE)

ListedPlayed(f, name) ==
    \E i \in 1 .. Len(list_directory(PathString(FALSE, <<>>), f).listing) :
        LET entry == list_directory(PathString(FALSE, <<>>), f).listing[i]
        IN  entry.name = name /\ entry.played

\* C20: the store holds one record per file: every path string that
\* get_audio_file accepts for the same file reads and writes the same
\* record, so once an accepted POST /api/progress has marked a file played,
\* GET /api/progress for that file under each of its path strings and the
\* listing of its directory report played = true.
OneRecordPerFile ==
    (resp.route = "set_progress" /\ resp.status = 200 /\ resp.body.played) =>
        /\ \A q \in SameFile(resp.key) : Reported(file, q) = Reported(file, resp.key)
        /\ \A q \in SameFile(resp.key) : Reported(file, q).played
        /\ ListedPlayed(file, "a.mp3")

====
